---- MODULE Spec2Model ----
(***************************************************************************)
(* Model of the BOM classification and aggregation engine of               *)
(* converter_DEBUG_v4.py: ExcelConverter.classify_category and             *)
(* ExcelConverter.group_by_item.                                           *)
(*                                                                         *)
(* A text cell is a sequence of one-character strings; a missing text cell *)
(* and the empty text are both <<>> (every text read in the code is        *)
(* guarded by pd.notna(...) else '').  A key cell (ITEM, SERIAL, PARTS) is *)
(* a string, NaN when missing.  A numeric cell (usage, unit weight) is a   *)
(* record: a number, a missing value, or a text that float() rejects.      *)
(* Weights are integers.  The column named '使用' is column 7 of the       *)
(* table, as the assignment rep_row.iloc[7] = 1.0 of group_by_item takes   *)
(* it to be, so a row has one usage cell.  all_df is the whole table: the  *)
(* sibling scans of classify_category walk the rows of every item.         *)
(***************************************************************************)
EXTENDS Integers, Sequences, FiniteSets, TLC

VARIABLES input_data, columns, pc, itemIdx, serial_groups, gIdx,
          category_stats, classification_debug, grouped

vars == <<input_data, columns, pc, itemIdx, serial_groups, gIdx,
          category_stats, classification_debug, grouped>>

\* Largest number of rows of an input table drawn from RowMenu.
MaxRows == 3

-----------------------------------------------------------------------------
(* Cells *)

NaN == "NaN"

Num(n) == [kind |-> "num", val |-> n]
NaNCell == [kind |-> "nan", val |-> 0]
StrCell == [kind |-> "str", val |-> 0]

\* float(x) if pd.notna(x) else 0.0 ; float() of a non-numeric text raises
CellFloat(c) ==
  IF c.kind = "nan" THEN [raised |-> FALSE, val |-> 0]
  ELSE IF c.kind = "str" THEN [raised |-> TRUE, val |-> 0]
  ELSE [raised |-> FALSE, val |-> c.val]

\* the unit weight read of classify_category: try float(...) except -> 0.0
CellFloatSafe(c) == IF c.kind = "num" THEN c.val ELSE 0

-----------------------------------------------------------------------------
(* Text *)

LowerLetters == <<"a","b","c","d","e","f","g","h","i","j","k","l","m",
                  "n","o","p","q","r","s","t","u","v","w","x","y","z">>
UpperLetters == <<"A","B","C","D","E","F","G","H","I","J","K","L","M",
                  "N","O","P","Q","R","S","T","U","V","W","X","Y","Z">>

UpperChar(c) ==
  IF \E i \in 1..26 : LowerLetters[i] = c
  THEN UpperLetters[CHOOSE i \in 1..26 : LowerLetters[i] = c]
  ELSE c

\* str.upper()
Upper(s) == [i \in 1..Len(s) |-> UpperChar(s[i])]

\* t in s
Contains(s, t) ==
  \E i \in 0..(Len(s) - Len(t)) : SubSeq(s, i + 1, i + Len(t)) = t

\* s[:n]
Truncate(s, n) == SubSeq(s, 1, IF Len(s) < n THEN Len(s) ELSE n)

IsSpace(c) == c = " "

\* str.strip()
Strip(s) ==
  IF \A i \in 1..Len(s) : IsSpace(s[i]) THEN <<>>
  ELSE LET first == CHOOSE i \in 1..Len(s) :
                      /\ ~IsSpace(s[i])
                      /\ \A j \in 1..(i - 1) : IsSpace(s[j])
           last == CHOOSE i \in 1..Len(s) :
                      /\ ~IsSpace(s[i])
                      /\ \A j \in (i + 1)..Len(s) : IsSpace(s[j])
       IN SubSeq(s, first, last)

Digits == <<"0","1","2","3","4","5","6","7","8","9">>
IsDigit(c) == \E d \in 1..10 : Digits[d] = c
DigitVal(c) == (CHOOSE d \in 1..10 : Digits[d] = c) - 1

RECURSIVE DigitsToInt(_)
\* int() of a run of digits
DigitsToInt(s) ==
  IF s = <<>> THEN 0
  ELSE 10 * DigitsToInt(SubSeq(s, 1, Len(s) - 1)) + DigitVal(s[Len(s)])

\* re.search(r'(?:T|PL)?(\d+)(?:MM)?', s): the leftmost match always holds the
\* first digit of s, and the greedy group 1 is the maximal run of digits
\* starting there.  matched = FALSE when s has no digit.
ThicknessMatch(s) ==
  IF ~\E i \in 1..Len(s) : IsDigit(s[i])
  THEN [matched |-> FALSE, thickness |-> 0]
  ELSE LET first == CHOOSE i \in 1..Len(s) :
                      /\ IsDigit(s[i])
                      /\ \A j \in 1..(i - 1) : ~IsDigit(s[j])
           last == CHOOSE i \in first..Len(s) :
                      /\ \A j \in first..i : IsDigit(s[j])
                      /\ (i = Len(s) \/ ~IsDigit(s[i + 1]))
       IN [matched |-> TRUE, thickness |-> DigitsToInt(SubSeq(s, first, last))]

-----------------------------------------------------------------------------
(* Keywords of classify_category *)

kw_MSdash == <<"M","S","-">>
kw_MS == <<"M","S">>
kw_JIS == <<"J","I","S">>
kw_ES == <<"E","S">>
kw_SU == <<"S","U">>
kw_ST == <<"S","T">>
kw_CS == <<"C","S">>
kw_ROLL == <<"R","O","L","L">>
kw_ROLLER == <<"R","O","L","L","E","R">>
kw_BRG == <<"B","R","G">>
kw_BEARING == <<"B","E","A","R","I","N","G">>
kw_SPCC == <<"S","P","C","C">>
kw_SPHC == <<"S","P","H","C">>
kw_SS == <<"S","S">>
kw_SCM == <<"S","C","M">>
kw_SF == <<"S","F">>
kw_PIPE == <<"P","I","P","E">>
kw_PIPING == <<"P","I","P","I","N","G">>

-----------------------------------------------------------------------------
(* classify_category *)

\* a row of the input table
Row(item, serial, parts, name, size, usage, material, supply, summary, uw) ==
  [item |-> item, serial |-> serial, parts |-> parts, name |-> name,
   size |-> size, usage |-> usage, material |-> material, supply |-> supply,
   summary |-> summary, uw |-> uw]

\* mutant: the JIS marker is not looked for
SummaryExcluded_NoJIS(summary) ==
  \/ Contains(summary, kw_MSdash)
  \/ Contains(summary, kw_MS)

\* 'MS-' in summary or 'MS' in summary or 'JIS' in summary
SummaryExcluded(summary) ==
  \/ Contains(summary, kw_MSdash)
  \/ Contains(summary, kw_MS)
  \/ Contains(summary, kw_JIS)

\* any(x in supply for x in ['ES', 'SU', 'ST', 'CS'])
HasSupplyCode(supply) ==
  \E x \in {kw_ES, kw_SU, kw_ST, kw_CS} : Contains(supply, x)

\* mutant: a ROLL/ROLLER part with BRG/BEARING passes the gate
SupplyGateExcluded_NoBrg(supply, parts_name) ==
  /\ HasSupplyCode(supply)
  /\ ~(Contains(parts_name, kw_ROLL) \/ Contains(parts_name, kw_ROLLER))

\* mutant: every part with a supply code is excluded
SupplyGateExcluded_All(supply, parts_name) ==
  HasSupplyCode(supply)

\* the supply gate returns None
SupplyGateExcluded(supply, parts_name) ==
  /\ HasSupplyCode(supply)
  /\ LET has_roll == Contains(parts_name, kw_ROLL) \/ Contains(parts_name, kw_ROLLER)
         has_brg == Contains(parts_name, kw_BRG) \/ Contains(parts_name, kw_BEARING)
     IN ~has_roll \/ has_brg

\* any(x in material for x in ['SPCC', 'SPHC', 'SS'])
IsCommonSteel(material) ==
  \E x \in {kw_SPCC, kw_SPHC, kw_SS} : Contains(material, x)

\* all_df[all_df['SERIAL'] == serial]
SameSerialParts(all_df, serial) ==
  SelectSeq(all_df, LAMBDA part : part.serial = serial)

RECURSIVE HeavySiblingScan(_)
\* the loop over same_serial_parts of the common-steel branch:
\* "Ds" when it returns, "raise" when a float() raises first, else "none"
HeavySiblingScan(parts) ==
  IF parts = <<>> THEN "none"
  ELSE LET part == Head(parts)
           part_material == Upper(part.material)
           part_usage == CellFloat(part.usage)
           part_unit_weight == CellFloat(part.uw)
           part_weight == part_usage.val * part_unit_weight.val
       IN IF part_usage.raised \/ part_unit_weight.raised THEN "raise"
          ELSE IF ~IsCommonSteel(part_material) /\ part_weight >= 300 THEN "Ds"
          ELSE HeavySiblingScan(Tail(parts))

RECURSIVE ThicknessSiblingScan(_)
\* the loop over same_serial_parts of the thickness rule
ThicknessSiblingScan(parts) ==
  IF parts = <<>> THEN "none"
  ELSE LET part == Head(parts)
           part_usage == CellFloat(part.usage)
           part_unit_weight == CellFloat(part.uw)
           part_weight == part_usage.val * part_unit_weight.val
       IN IF part_usage.raised \/ part_unit_weight.raised THEN "raise"
          ELSE IF part_weight >= 300 THEN "Ds"
          ELSE ThicknessSiblingScan(Tail(parts))

\* the thickness rule returns 'Ds'; anything raised inside is swallowed
ThicknessRule(row, all_df) ==
  LET size_str == Upper(row.size)
      thickness_match == ThicknessMatch(size_str)
  IN /\ thickness_match.matched
     /\ thickness_match.thickness >= 80
     /\ row.serial # NaN
     /\ ThicknessSiblingScan(SameSerialParts(all_df, row.serial)) = "Ds"

\* mutant: a group that no rule matches is 'd'
LightRules_FallbackD(total_weight, parts_name) ==
  IF total_weight >= 500 THEN "Dm"
  ELSE IF Contains(parts_name, kw_PIPE) \/ Contains(parts_name, kw_PIPING) THEN "PD"
  ELSE IF total_weight < 50 THEN "PD"
  ELSE "d"

\* mutant: the 500 kg and 50 kg thresholds taken on the other side
LightRules_Thresholds(total_weight, parts_name) ==
  IF total_weight > 500 THEN "Dm"
  ELSE IF Contains(parts_name, kw_PIPE) \/ Contains(parts_name, kw_PIPING) THEN "PD"
  ELSE IF total_weight <= 50 THEN "PD"
  ELSE "unclassified"

\* the rules after the thickness rule
LightRules(total_weight, parts_name) ==
  IF total_weight >= 500 THEN "Dm"
  ELSE IF Contains(parts_name, kw_PIPE) \/ Contains(parts_name, kw_PIPING) THEN "PD"
  ELSE IF total_weight < 50 THEN "PD"
  ELSE "unclassified"

\* mutant: the except of classify_category returns None, not 'd'
WeightRules_RaiseNone(row, all_df, total_weight, material, parts_name) ==
  LET is_common_steel == IsCommonSteel(material)
      scan == IF is_common_steel /\ row.serial # NaN
              THEN HeavySiblingScan(SameSerialParts(all_df, row.serial))
              ELSE "none"
  IN IF total_weight >= 3000 THEN "Ds"
     ELSE IF ~is_common_steel /\ total_weight >= 400 THEN "Ds"
     ELSE IF scan = "Ds" THEN "Ds"
     ELSE IF scan = "raise" THEN "None"
     ELSE IF (Contains(material, kw_SCM) \/ Contains(material, kw_SF))
             /\ total_weight >= 300 THEN "Ds"
     ELSE IF ~is_common_steel /\ total_weight >= 100 THEN "Dm"
     ELSE IF ThicknessRule(row, all_df) THEN "Ds"
     ELSE LightRules(total_weight, parts_name)

\* the material and weight rules, from the 3000 kg rule on
WeightRules(row, all_df, total_weight, material, parts_name) ==
  LET is_common_steel == IsCommonSteel(material)
      scan == IF is_common_steel /\ row.serial # NaN
              THEN HeavySiblingScan(SameSerialParts(all_df, row.serial))
              ELSE "none"
  IN IF total_weight >= 3000 THEN "Ds"
     ELSE IF ~is_common_steel /\ total_weight >= 400 THEN "Ds"
     ELSE IF scan = "Ds" THEN "Ds"
     ELSE IF scan = "raise" THEN "d"
     ELSE IF (Contains(material, kw_SCM) \/ Contains(material, kw_SF))
             /\ total_weight >= 300 THEN "Ds"
     ELSE IF ~is_common_steel /\ total_weight >= 100 THEN "Dm"
     ELSE IF ThicknessRule(row, all_df) THEN "Ds"
     ELSE LightRules(total_weight, parts_name)

\* ExcelConverter.classify_category: "None" stands for None
classify_category(row, all_df) ==
  LET usage == CellFloat(row.usage)
      unit_weight == CellFloatSafe(row.uw)
      total_weight == usage.val * unit_weight
      material == Upper(row.material)
      supply == Upper(row.supply)
      summary == Upper(row.summary)
      parts_name == Upper(row.name)
  IN IF usage.raised THEN "d"
     ELSE IF SummaryExcluded(summary) THEN "None"
     ELSE IF SupplyGateExcluded(supply, parts_name) THEN "None"
     ELSE WeightRules(row, all_df, total_weight, material, parts_name)

-----------------------------------------------------------------------------
(* group_by_item *)

RECURSIVE DropnaUnique_KeepNaN(_)
\* mutant: dropna() left out, a missing value is a value like another
DropnaUnique_KeepNaN(s) ==
  IF s = <<>> THEN <<>>
  ELSE LET init == DropnaUnique_KeepNaN(SubSeq(s, 1, Len(s) - 1))
           last == s[Len(s)]
       IN IF \E i \in 1..Len(init) : init[i] = last
          THEN init
          ELSE Append(init, last)

RECURSIVE DropnaUnique(_)
\* Series.dropna().unique(): the distinct present values, by first occurrence
DropnaUnique(s) ==
  IF s = <<>> THEN <<>>
  ELSE LET init == DropnaUnique(SubSeq(s, 1, Len(s) - 1))
           last == s[Len(s)]
       IN IF last = NaN \/ \E i \in 1..Len(init) : init[i] = last
          THEN init
          ELSE Append(init, last)

\* self.input_data['ITEM'].dropna().unique()
ItemNums(all_df) == DropnaUnique([i \in 1..Len(all_df) |-> all_df[i].item])

\* self.input_data[self.input_data['ITEM'] == item_num]
ItemRows(all_df, item_num) == SelectSeq(all_df, LAMBDA r : r.item = item_num)

RECURSIVE PartsGroupWeight_LastOnly(_)
\* mutant: total_weight = usage * unit_weight, not +=: the last row's weight
PartsGroupWeight_LastOnly(parts_rows) ==
  IF parts_rows = <<>> THEN [raised |-> FALSE, val |-> 0]
  ELSE LET row == Head(parts_rows)
           usage == CellFloat(row.usage)
           unit_weight == CellFloat(row.uw)
           rest == PartsGroupWeight_LastOnly(Tail(parts_rows))
       IN [raised |-> usage.raised \/ unit_weight.raised \/ rest.raised,
           val |-> IF Tail(parts_rows) = <<>> THEN usage.val * unit_weight.val
                   ELSE rest.val]

RECURSIVE PartsGroupWeight(_)
\* the weight of a PARTS group: the sum of usage * unit weight over its rows;
\* raised when a float() of the loop raises
PartsGroupWeight(parts_rows) ==
  IF parts_rows = <<>> THEN [raised |-> FALSE, val |-> 0]
  ELSE LET row == Head(parts_rows)
           usage == CellFloat(row.usage)
           unit_weight == CellFloat(row.uw)
           rest == PartsGroupWeight(Tail(parts_rows))
       IN [raised |-> usage.raised \/ unit_weight.raised \/ rest.raised,
           val |-> usage.val * unit_weight.val + rest.val]

\* parts_list of one serial: one group per distinct PARTS number
PartsList(item_rows, serial) ==
  LET serial_rows == SelectSeq(item_rows, LAMBDA r : r.serial = serial)
      parts_nums == DropnaUnique([i \in 1..Len(serial_rows) |-> serial_rows[i].parts])
  IN [k \in 1..Len(parts_nums) |->
        LET parts_rows == SelectSeq(serial_rows, LAMBDA r : r.parts = parts_nums[k])
            w == PartsGroupWeight(parts_rows)
        IN [serial |-> serial,
            parts_num |-> parts_nums[k],
            weight |-> w.val,
            raised |-> w.raised,
            rows |-> parts_rows,
            representative_row |-> parts_rows[1]]]

RECURSIVE ConcatPartsLists(_, _)
ConcatPartsLists(item_rows, serials) ==
  IF serials = <<>> THEN <<>>
  ELSE PartsList(item_rows, Head(serials)) \o ConcatPartsLists(item_rows, Tail(serials))

\* serial_groups of one item, in the order in which the classification loop
\* walks it: by serial, then by PARTS number, each by first occurrence
SerialGroups(item_rows) ==
  ConcatPartsLists(item_rows,
     DropnaUnique([i \in 1..Len(item_rows) |-> item_rows[i].serial]))

\* building serial_groups raises (a weight of some group cannot be computed)
SerialGroupsRaised(item_rows) ==
  \E k \in 1..Len(SerialGroups(item_rows)) : SerialGroups(item_rows)[k].raised

Categories == {"d", "Ds", "Dm", "De", "PD", "unclassified"}
FinalCategories == {"d", "Ds", "Dm", "De", "PD"}

EmptyStats == [c \in Categories |-> [count |-> 0, weight |-> 0, parts |-> <<>>]]

\* mutant: the representative row is classified with its own weight
ClassifyInput_RepOnly(rep_row, group_weight) == rep_row

\* the representative row handed to classify_category: usage 1 and unit
\* weight group_weight when group_weight > 0, else the row as it is
ClassifyInput(rep_row, group_weight) ==
  IF group_weight > 0
  THEN [rep_row EXCEPT !.usage = Num(1), !.uw = Num(group_weight)]
  ELSE rep_row

\* mutant: the weight of the representative row is added, not the group's
CountGroup_RepWeight(stats, category, parts_group) ==
  [stats EXCEPT ![category] =
     [count |-> @.count + 1,
      weight |-> @.weight
                   + CellFloat(parts_group.representative_row.usage).val
                     * CellFloat(parts_group.representative_row.uw).val,
      parts |-> Append(@.parts, [weight |-> parts_group.weight,
                                 parts_num |-> parts_group.parts_num])]]

\* category_stats after a group of the category was counted
CountGroup(stats, category, parts_group) ==
  [stats EXCEPT ![category] =
     [count |-> @.count + 1,
      weight |-> @.weight + parts_group.weight,
      parts |-> Append(@.parts, [weight |-> parts_group.weight,
                                 parts_num |-> parts_group.parts_num])]]

RECURSIVE SortByWeightDesc_Ascending(_)
\* mutant: reverse=True left out, the sort is ascending
SortByWeightDesc_Ascending(parts) ==
  IF parts = <<>> THEN <<>>
  ELSE LET rest == SortByWeightDesc_Ascending(SubSeq(parts, 1, Len(parts) - 1))
           x == parts[Len(parts)]
           k == Cardinality({i \in 1..Len(rest) : rest[i].weight <= x.weight})
       IN SubSeq(rest, 1, k) \o <<x>> \o SubSeq(rest, k + 1, Len(rest))

RECURSIVE SortByWeightDesc(_)
\* list.sort(key=weight, reverse=True): stable, descending
SortByWeightDesc(parts) ==
  IF parts = <<>> THEN <<>>
  ELSE LET rest == SortByWeightDesc(SubSeq(parts, 1, Len(parts) - 1))
           x == parts[Len(parts)]
           k == Cardinality({i \in 1..Len(rest) : rest[i].weight >= x.weight})
       IN SubSeq(rest, 1, k) \o <<x>> \o SubSeq(rest, k + 1, Len(rest))

RECURSIVE SumWeight(_, _, _)
\* the sum of parts[i].weight for i in lo..hi
SumWeight(parts, lo, hi) ==
  IF lo > hi THEN 0 ELSE parts[lo].weight + SumWeight(parts, lo + 1, hi)

\* mutant: the half is rounded up
HalfCount_RoundUp(n) == (n + 1) \div 2

\* len(unclassified_parts) // 2
HalfCount(n) == n \div 2

\* mutant: the second loop runs over as many parts as the first, so the
\* middle part of an odd number of parts is left out
AllocateUnclassified_EqualHalves(stats) ==
  LET sorted == SortByWeightDesc(stats["unclassified"].parts)
      n == Len(sorted)
      half_count == HalfCount(n)
  IN [stats EXCEPT
        !["unclassified"].parts = sorted,
        !["Dm"].count = @ + half_count,
        !["Dm"].weight = @ + SumWeight(sorted, 1, half_count),
        !["De"].count = @ + half_count,
        !["De"].weight = @ + SumWeight(sorted, half_count + 1, 2 * half_count)]

\* category_stats after the unclassified parts were divided between Dm and De
AllocateUnclassified(stats) ==
  LET sorted == SortByWeightDesc(stats["unclassified"].parts)
      n == Len(sorted)
      half_count == HalfCount(n)
  IN [stats EXCEPT
        !["unclassified"].parts = sorted,
        !["Dm"].count = @ + half_count,
        !["Dm"].weight = @ + SumWeight(sorted, 1, half_count),
        !["De"].count = @ + (n - half_count),
        !["De"].weight = @ + SumWeight(sorted, half_count + 1, n)]

\* the Item name: column 5 of the first row, stripped, at most 50 characters,
\* else "Item <n>"
ItemName(first_row, item_num) ==
  LET item_name_col5 == Strip(first_row.name)
  IN IF item_name_col5 # <<>> THEN Truncate(item_name_col5, 50)
     ELSE <<"I", "t", "e", "m", " ", item_num>>

\* item_data
ItemData(item_num, first_row, stats) ==
  [order_name |-> "TNPR",
   order_num |-> "1021K457",
   item_num |-> item_num,
   item_name |-> ItemName(first_row, item_num),
   d_count |-> stats["d"].count, d_weight |-> stats["d"].weight,
   ds_count |-> stats["Ds"].count, ds_weight |-> stats["Ds"].weight,
   dm_count |-> stats["Dm"].count, dm_weight |-> stats["Dm"].weight,
   de_count |-> stats["De"].count, de_weight |-> stats["De"].weight,
   pd_count |-> stats["PD"].count, pd_weight |-> stats["PD"].weight]

RECURSIVE ClassifyAll(_, _, _)
\* category_stats after the classification loop has walked the groups
ClassifyAll(groups, all_df, stats) ==
  IF groups = <<>> THEN stats
  ELSE LET parts_group == Head(groups)
           rep_row == ClassifyInput(parts_group.representative_row, parts_group.weight)
           category == classify_category(rep_row, all_df)
       IN ClassifyAll(Tail(groups), all_df,
                      IF category = "None" THEN stats
                      ELSE CountGroup(stats, category, parts_group))

\* item_data of one item of the table: one whole iteration of the ITEM loop
ItemSummary(all_df, item) ==
  ItemData(item, ItemRows(all_df, item)[1],
           AllocateUnclassified(
             ClassifyAll(SerialGroups(ItemRows(all_df, item)), all_df, EmptyStats)))

\* the columns group_by_item reads to build the groups; "USAGE" stands for
\* the usage quantity column, read by its name
RequiredColumns == {"ITEM", "SERIAL", "PARTS", "USAGE"}

\* the try block of one item raises before item_data is stored: KeyError of
\* item_rows['SERIAL'], IndexError of serial_rows.iloc[:, 3] once a serial is
\* walked, or ValueError of a float() of the weight loop
ItemRaised(item_rows, cols) ==
  \/ "SERIAL" \notin cols
  \/ /\ "PARTS" \notin cols
     /\ \E i \in 1..Len(item_rows) : item_rows[i].serial # NaN
  \/ SerialGroupsRaised(item_rows)

RECURSIVE RunItems(_, _, _)
\* the ITEM loop over the items: an item whose iteration raises stores nothing
RunItems(all_df, cols, items) ==
  IF items = <<>> THEN <<>>
  ELSE (IF ItemRaised(ItemRows(all_df, Head(items)), cols) THEN <<>>
        ELSE <<ItemSummary(all_df, Head(items))>>)
       \o RunItems(all_df, cols, Tail(items))

\* mutant: the representative row is not a copy, the weights written into
\* it land in the first row of the group in the frame
InputAfterClassify_NoCopy(all_df, parts_group) ==
  LET first == CHOOSE i \in 1..Len(all_df) :
                 /\ all_df[i] = parts_group.representative_row
                 /\ \A j \in 1..(i - 1) : all_df[j] # parts_group.representative_row
  IN [all_df EXCEPT ![first] =
        ClassifyInput(parts_group.representative_row, parts_group.weight)]

\* input_data after one iteration of the classification loop: rep_row is a
\* copy() of the representative row, so the frame keeps its cells
InputAfterClassify(all_df, parts_group) ==
  all_df

-----------------------------------------------------------------------------
(* Input tables *)

t_BOLT == <<"B", "O", "L", "T">>
t_ROLLER_ASSY == <<"R", "o", "l", "l", "e", "r", " ", "A", "s", "s", "y">>
t_ROLLER_BRG == <<"R", "O", "L", "L", "E", "R", " ", "B", "R", "G">>
t_PIPE_FLANGE == <<"P", "I", "P", "E", " ", "F", "L", "A", "N", "G", "E">>
t_SS400 == <<"S", "S", "4", "0", "0">>
t_SUS304 == <<"S", "U", "S", "3", "0", "4">>
t_SCM440 == <<"S", "C", "M", "4", "4", "0">>
t_spcc == <<"s", "p", "c", "c">>
t_A5052 == <<"A", "5", "0", "5", "2">>
t_JIS == <<"J", "I", "S", " ", "B", "1", "1", "8", "0">>
t_ms == <<"m", "s", "-", "1", "6">>
t_ES == <<"E", "S">>
t_t80 == <<"t", "8", "0">>
t_T9 == <<"T", "9", "x", "1", "0", "0">>

\* rows of the tables on which the whole of group_by_item is run
RowMenu ==
  { Row("1", "A", "p1", t_BOLT, <<>>, Num(1), t_SS400, <<>>, <<>>, Num(80)),
    Row("1", "A", "p2", t_BOLT, <<>>, Num(1), t_SS400, <<>>, <<>>, Num(60)),
    Row("1", "A", "p1", t_BOLT, <<>>, Num(2), t_SS400, <<>>, <<>>, Num(35)),
    Row("1", "B", "p3", t_BOLT, <<>>, Num(1), t_SUS304, <<>>, <<>>, Num(150)),
    Row("1", "B", "p1", t_BOLT, <<>>, Num(1), t_SS400, <<>>, <<>>, Num(100)),
    Row("2", "A", "p1", t_BOLT, <<>>, Num(1), t_SCM440, <<>>, <<>>, Num(350)),
    Row("1", "A", "p3", t_BOLT, <<>>, Num(1), t_SS400, <<>>, t_JIS, Num(3500)),
    Row("1", "A", "p2", t_ROLLER_ASSY, <<>>, Num(1), t_SS400, t_ES, <<>>, Num(150)),
    Row("1", "A", NaN, t_BOLT, <<>>, Num(1), t_SS400, <<>>, <<>>, StrCell),
    Row("1", "A", "p3", t_BOLT, <<>>, Num(1), t_SS400, <<>>, <<>>, StrCell),
    Row(NaN, "A", "p1", t_BOLT, <<>>, Num(1), t_SUS304, <<>>, <<>>, Num(300)),
    Row("1", NaN, "p1", t_BOLT, <<>>, Num(1), t_SS400, <<>>, <<>>, Num(80)),
    Row("2", "A", "p2", t_PIPE_FLANGE, <<>>, Num(1), t_spcc, <<>>, <<>>, Num(45)),
    Row("1", "A", "p1", t_BOLT, <<>>, Num(1), t_SS400, <<>>, <<>>, Num(0 - 100)),
    Row("1", "A", "p2", t_BOLT, t_t80, NaNCell, t_SS400, <<>>, <<>>, Num(80)) }

\* tables of 1..MaxRows rows of RowMenu
MenuTables == UNION { [1..n -> RowMenu] : n \in 1..MaxRows }

GridWeights == {0, 45, 50, 99, 100, 299, 300, 399, 400, 499, 500, 2999, 3000}
GridMaterials == {<<>>, t_SS400, t_SUS304, t_SCM440, t_spcc}
GridSupplies == {<<>>, t_ES}
GridSummaries == {<<>>, t_JIS, t_ms}
GridNames == {t_BOLT, t_ROLLER_ASSY, t_ROLLER_BRG, t_PIPE_FLANGE}
GridSizes == {<<>>, t_t80, t_T9}

\* one row of item 1, serial A, PARTS p1 for every combination of the fields
\* that classify_category reads
GridRows ==
  { Row("1", "A", "p1", name, size, Num(1), material, supply, summary, Num(w)) :
      name \in GridNames, size \in GridSizes, material \in GridMaterials,
      supply \in GridSupplies, summary \in GridSummaries, w \in GridWeights }

\* rows put after a grid row: another PARTS of the serial that is heavy and
\* not common steel, a second row of the same PARTS, another PARTS of the
\* serial that is heavy common steel, a heavy row of another serial, a heavy
\* PARTS of the serial with a supply code and no ROLL in its name
GridSiblings ==
  { Row("1", "A", "p2", t_BOLT, <<>>, Num(1), t_SUS304, <<>>, <<>>, Num(300)),
    Row("1", "A", "p1", t_BOLT, <<>>, Num(1), t_A5052, <<>>, <<>>, Num(100)),
    Row("1", "A", "p2", t_BOLT, <<>>, Num(1), t_SS400, <<>>, <<>>, Num(350)),
    Row("1", "B", "p2", t_BOLT, <<>>, Num(1), t_SUS304, <<>>, <<>>, Num(300)),
    Row("1", "A", "p3", t_BOLT, <<>>, Num(1), t_SS400, t_ES, <<>>, Num(3000)) }

GridTables ==
  { <<r>> : r \in GridRows } \cup { <<r, s>> : r \in GridRows, s \in GridSiblings }

\* first rows for the scans of the rows of a serial: a light row of PARTS p1,
\* of common steel with and without a thickness of 80, and not of common steel
ScanHeads ==
  { Row("1", "A", "p1", t_BOLT, t_t80, Num(1), t_SS400, <<>>, <<>>, Num(45)),
    Row("1", "A", "p1", t_BOLT, t_t80, Num(1), t_SUS304, <<>>, <<>>, Num(45)),
    Row("1", "A", "p1", t_BOLT, <<>>, Num(1), t_SS400, <<>>, <<>>, Num(45)) }

\* rows put after them: common steel rows of another PARTS, below and above
\* 300, a row outside every group with a unit weight that is no number, and
\* a heavy second row of PARTS p1 that is not common steel
ScanFollowers ==
  { Row("1", "A", "p2", t_BOLT, <<>>, Num(1), t_SS400, <<>>, <<>>, Num(150)),
    Row("1", "A", "p2", t_BOLT, <<>>, Num(1), t_SS400, <<>>, <<>>, Num(350)),
    Row("1", "A", NaN, t_BOLT, <<>>, Num(1), t_SS400, <<>>, <<>>, StrCell),
    Row("1", "A", "p1", t_BOLT, <<>>, Num(1), t_SUS304, <<>>, <<>>, Num(300)) }

ScanTables ==
  { <<h, f>> : h \in ScanHeads, f \in ScanFollowers }
    \cup { <<h, f, g>> : h \in ScanHeads, f \in ScanFollowers, g \in ScanFollowers }

-----------------------------------------------------------------------------
(* The run of group_by_item *)

item_nums == ItemNums(input_data)
item_num == item_nums[itemIdx]
item_rows == ItemRows(input_data, item_num)

\* a frame without one of the columns: the cells of the column are not there
\* to be read, the model keeps them as missing values
WithoutColumns(table, cols) ==
  [i \in 1..Len(table) |->
     [table[i] EXCEPT
        !.item = IF "ITEM" \in cols THEN @ ELSE NaN,
        !.serial = IF "SERIAL" \in cols THEN @ ELSE NaN,
        !.parts = IF "PARTS" \in cols THEN @ ELSE NaN,
        !.usage = IF "USAGE" \in cols THEN @ ELSE NaNCell,
        !.name = IF "PARTS" \in cols THEN @ ELSE <<>>,
        !.size = IF "PARTS" \in cols THEN @ ELSE <<>>,
        !.material = IF "PARTS" \in cols THEN @ ELSE <<>>,
        !.supply = IF "PARTS" \in cols THEN @ ELSE <<>>,
        !.summary = IF "PARTS" \in cols THEN @ ELSE <<>>,
        !.uw = IF "PARTS" \in cols THEN @ ELSE NaNCell]]

\* Largest number of rows of a frame that lacks a column.
MaxStructRows == 2

StructRows ==
  { Row("1", "A", "p1", t_BOLT, <<>>, Num(1), t_SS400, <<>>, <<>>, Num(80)),
    Row("1", "B", "p3", t_BOLT, <<>>, Num(1), t_SUS304, <<>>, <<>>, Num(150)),
    Row("2", "A", "p1", t_BOLT, <<>>, Num(1), t_SCM440, <<>>, <<>>, Num(350)),
    Row("1", NaN, "p1", t_BOLT, <<>>, Num(1), t_SS400, <<>>, <<>>, Num(80)) }

\* the sets of columns of the frames that lack a column; PARTS is column 3,
\* a frame too narrow to hold it holds no later column either
StructColumns ==
  { RequiredColumns \ {"ITEM"}, RequiredColumns \ {"SERIAL"},
    {"ITEM", "SERIAL"}, RequiredColumns \ {"USAGE"} }

StructTables(cols) ==
  { WithoutColumns(t, cols) :
      t \in UNION { [1..n -> StructRows] : n \in 1..MaxStructRows } }

Init ==
  /\ \/ /\ columns = RequiredColumns
        /\ input_data \in MenuTables \cup GridTables \cup ScanTables
     \/ /\ columns \in StructColumns
        /\ input_data \in StructTables(columns)
  /\ pc = "loop"
  /\ itemIdx = 1
  /\ serial_groups = <<>>
  /\ gIdx = 1
  /\ category_stats = EmptyStats
  /\ classification_debug = <<>>
  /\ grouped = <<>>

\* an iteration of the ITEM loop starts: serial_groups is built
StartItem ==
  /\ pc = "loop"
  /\ "ITEM" \in columns
  /\ itemIdx <= Len(item_nums)
  /\ ~ItemRaised(item_rows, columns)
  /\ serial_groups' = SerialGroups(item_rows)
  /\ category_stats' = EmptyStats
  /\ classification_debug' = <<>>
  /\ gIdx' = 1
  /\ pc' = "classify"
  /\ UNCHANGED <<input_data, columns, itemIdx, grouped>>

\* building serial_groups raises: the except of the ITEM loop, continue
ItemFail ==
  /\ pc = "loop"
  /\ "ITEM" \in columns
  /\ itemIdx <= Len(item_nums)
  /\ ItemRaised(item_rows, columns)
  /\ itemIdx' = itemIdx + 1
  /\ UNCHANGED <<input_data, columns, pc, serial_groups, gIdx, category_stats,
                 classification_debug, grouped>>

\* one iteration of the classification loop
ClassifyGroup ==
  /\ pc = "classify"
  /\ gIdx <= Len(serial_groups)
  /\ LET parts_group == serial_groups[gIdx]
         rep_row == ClassifyInput(parts_group.representative_row, parts_group.weight)
         summary == Upper(rep_row.summary)
         category == classify_category(rep_row, input_data)
     IN /\ classification_debug' =
             Append(classification_debug,
                    [serial |-> parts_group.serial,
                     parts |-> parts_group.parts_num,
                     weight |-> parts_group.weight,
                     has_ms |-> SummaryExcluded(summary),
                     summary |-> Truncate(summary, 30),
                     category |-> category])
        /\ category_stats' =
             IF category = "None" THEN category_stats
             ELSE CountGroup(category_stats, category, parts_group)
  /\ input_data' = InputAfterClassify(input_data, serial_groups[gIdx])
  /\ gIdx' = gIdx + 1
  /\ UNCHANGED <<columns, pc, itemIdx, serial_groups, grouped>>

\* the unclassified parts are divided between Dm and De
Allocate ==
  /\ pc = "classify"
  /\ gIdx > Len(serial_groups)
  /\ category_stats' = AllocateUnclassified(category_stats)
  /\ pc' = "emit"
  /\ UNCHANGED <<input_data, columns, itemIdx, serial_groups, gIdx,
                 classification_debug, grouped>>

\* item_data is stored in grouped and the ITEM loop goes on
Emit ==
  /\ pc = "emit"
  /\ grouped' = Append(grouped, ItemData(item_num, item_rows[1], category_stats))
  /\ itemIdx' = itemIdx + 1
  /\ pc' = "loop"
  /\ UNCHANGED <<input_data, columns, serial_groups, gIdx, category_stats,
                 classification_debug>>

\* return grouped
Return ==
  /\ pc = "loop"
  /\ "ITEM" \in columns
  /\ itemIdx > Len(item_nums)
  /\ pc' = "done"
  /\ UNCHANGED <<input_data, columns, itemIdx, serial_groups, gIdx, category_stats,
                 classification_debug, grouped>>

\* self.input_data['ITEM'] raises KeyError outside every try: neither
\* group_by_item, transform_data nor convert returns
Abort ==
  /\ pc = "loop"
  /\ "ITEM" \notin columns
  /\ pc' = "aborted"
  /\ UNCHANGED <<input_data, columns, itemIdx, serial_groups, gIdx,
                 category_stats, classification_debug, grouped>>

\* group_by_item is called a second time on the same self.input_data
Rerun ==
  /\ pc = "done"
  /\ grouped' = RunItems(input_data, columns, ItemNums(input_data))
  /\ pc' = "done2"
  /\ UNCHANGED <<input_data, columns, itemIdx, serial_groups, gIdx,
                 category_stats, classification_debug>>

Next ==
  \/ StartItem \/ ItemFail \/ ClassifyGroup \/ Allocate \/ Emit \/ Return
  \/ Abort \/ Rerun

Spec == Init /\ [][Next]_vars

-----------------------------------------------------------------------------
(* Properties: the notions of the specification, stated over the input rows *)

\* the (serial, PARTS) keys of the PartGroups of an item
GroupKeys(item) ==
  { <<input_data[i].serial, input_data[i].parts>> :
      i \in { j \in 1..Len(input_data) :
                /\ input_data[j].item = item
                /\ input_data[j].serial # NaN
                /\ input_data[j].parts # NaN } }

\* the rows of a PartGroup
GroupRowIdx(item, key) ==
  { j \in 1..Len(input_data) :
      /\ input_data[j].item = item
      /\ input_data[j].serial = key[1]
      /\ input_data[j].parts = key[2] }

\* usage_quantity x unit_weight of a row, absent values being 0
RowMass(r) ==
  (IF r.usage.kind = "num" THEN r.usage.val ELSE 0)
    * (IF r.uw.kind = "num" THEN r.uw.val ELSE 0)

RECURSIVE SumRowMass(_)
SumRowMass(idx) ==
  IF idx = {} THEN 0
  ELSE LET j == CHOOSE x \in idx : TRUE
       IN RowMass(input_data[j]) + SumRowMass(idx \ {j})

\* total_mass of a PartGroup
GroupMass(item, key) == SumRowMass(GroupRowIdx(item, key))

\* the representative row of a PartGroup: its first row
RepRow(item, key) ==
  input_data[CHOOSE j \in GroupRowIdx(item, key) :
               \A k \in GroupRowIdx(item, key) : j <= k]

\* the category that the classifier gave to a PartGroup of the item whose
\* records classification_debug holds ("absent" when it has no record)
DebugCategory(key) ==
  IF \E k \in 1..Len(classification_debug) :
        /\ classification_debug[k].serial = key[1]
        /\ classification_debug[k].parts = key[2]
  THEN classification_debug[CHOOSE k \in 1..Len(classification_debug) :
          /\ classification_debug[k].serial = key[1]
          /\ classification_debug[k].parts = key[2]].category
  ELSE "absent"

\* the PartGroups of an item that the classifier did not exclude
NonExcludedKeys(item) ==
  { key \in GroupKeys(item) : DebugCategory(key) # "None" }

RECURSIVE SumGroupMass(_, _)
SumGroupMass(item, keys) ==
  IF keys = {} THEN 0
  ELSE LET key == CHOOSE x \in keys : TRUE
       IN GroupMass(item, key) + SumGroupMass(item, keys \ {key})

\* the ItemSummary stored last; classification_debug holds the records of
\* its item until the next item starts
LastSummary == grouped[Len(grouped)]
SummaryStored == pc \in {"loop", "done"} /\ grouped # <<>>

SumCounts(s) == s.d_count + s.ds_count + s.dm_count + s.de_count + s.pd_count
SumWeights(s) == s.d_weight + s.ds_weight + s.dm_weight + s.de_weight + s.pd_weight

\* the unresolved PartGroups of the item being processed
UnresolvedIdx ==
  { k \in 1..Len(classification_debug) :
      classification_debug[k].category = "unclassified" }

RECURSIVE SumDebugWeight(_)
SumDebugWeight(idx) ==
  IF idx = {} THEN 0
  ELSE LET k == CHOOSE x \in idx : TRUE
       IN classification_debug[k].weight + SumDebugWeight(idx \ {k})

AllocateStep == pc = "classify" /\ pc' = "emit"

-----------------------------------------------------------------------------
\* C1: for every item that gets an ItemSummary, the five category counts
\* (d, Ds, Dm, De, PD) sum to the number of the item's PartGroups that the
\* classifier did not exclude.
C1_CountsSum ==
  SummaryStored =>
    SumCounts(LastSummary) = Cardinality(NonExcludedKeys(LastSummary.item_num))

\* an item with an excluded PartGroup and two unresolved ones, split between
\* Dm and De, was stored
C1_Witness ==
  /\ SummaryStored
  /\ Cardinality(GroupKeys(LastSummary.item_num)) = 3
  /\ Cardinality(NonExcludedKeys(LastSummary.item_num)) = 2
  /\ LastSummary.dm_count = 1
  /\ LastSummary.de_count = 1

\* C2: for every item that gets an ItemSummary, the five category masses sum
\* to the sum of total_mass over the item's non-excluded PartGroups.
C2_WeightsSum ==
  SummaryStored =>
    SumWeights(LastSummary) =
      SumGroupMass(LastSummary.item_num, NonExcludedKeys(LastSummary.item_num))

\* an item with a two-row PartGroup, an excluded PartGroup and allocated
\* unresolved groups was stored
C2_Witness ==
  /\ SummaryStored
  /\ \E key \in NonExcludedKeys(LastSummary.item_num) :
        Cardinality(GroupRowIdx(LastSummary.item_num, key)) = 2
  /\ \E key \in GroupKeys(LastSummary.item_num) : DebugCategory(key) = "None"
  /\ LastSummary.de_count >= 1
  /\ SumWeights(LastSummary) > 0

\* C3: the allocator gives floor(n/2) of the n unresolved PartGroups to Dm
\* and the other n - floor(n/2) to De, changes no other count, and the
\* ItemSummary stored next holds these counts.
C3_Split ==
  [][ /\ AllocateStep =>
          LET n == Cardinality(UnresolvedIdx)
          IN /\ category_stats'["Dm"].count = category_stats["Dm"].count + (n \div 2)
             /\ category_stats'["De"].count =
                  category_stats["De"].count + (n - (n \div 2))
             /\ \A c \in {"d", "Ds", "PD"} :
                  category_stats'[c].count = category_stats[c].count
      /\ (pc = "emit" /\ pc' = "loop") =>
          /\ grouped'[Len(grouped')].dm_count = category_stats["Dm"].count
          /\ grouped'[Len(grouped')].de_count = category_stats["De"].count
    ]_vars

\* three unresolved PartGroups were allocated: one to Dm, two to De
C3_Witness ==
  /\ pc = "emit"
  /\ Cardinality(UnresolvedIdx) = 3
  /\ category_stats["Dm"].count = 1
  /\ category_stats["De"].count = 2

\* C4: the unresolved groups are divided so that every group sent to Dm is
\* at least as heavy as every group sent to De: the masses added to Dm and
\* to De are those of a division D, U \ D of the unresolved groups with
\* floor(n/2) groups in D and no group of D lighter than a group of U \ D.
C4_HeavierHalf ==
  [][ AllocateStep =>
        LET U == UnresolvedIdx
            w(k) == classification_debug[k].weight
        IN \E D \in SUBSET U :
             /\ Cardinality(D) = Cardinality(U) \div 2
             /\ \A a \in D : \A b \in U \ D : w(a) >= w(b)
             /\ category_stats'["Dm"].weight =
                  category_stats["Dm"].weight + SumDebugWeight(D)
             /\ category_stats'["De"].weight =
                  category_stats["De"].weight + SumDebugWeight(U \ D)
    ]_vars

\* three unresolved groups of masses 60, 80, 100, met in that order, were
\* allocated: 100 to Dm, 60 and 80 to De
C4_Witness ==
  /\ pc = "emit"
  /\ Len(classification_debug) = 3
  /\ classification_debug[1].weight = 60
  /\ classification_debug[2].weight = 80
  /\ classification_debug[3].weight = 100
  /\ Cardinality(UnresolvedIdx) = 3
  /\ category_stats["Dm"].weight = 100
  /\ category_stats["De"].weight = 140

-----------------------------------------------------------------------------
(* The rules of the classifier as the specification words them, over a row *)

HasText(cell, kw) == Contains(Upper(cell), kw)

MarkedSummary(r) ==
  HasText(r.summary, kw_MSdash) \/ HasText(r.summary, kw_MS) \/ HasText(r.summary, kw_JIS)

CodedSupply(r) ==
  HasText(r.supply, kw_ES) \/ HasText(r.supply, kw_SU)
    \/ HasText(r.supply, kw_ST) \/ HasText(r.supply, kw_CS)

NamedRoll(r) == HasText(r.name, kw_ROLL) \/ HasText(r.name, kw_ROLLER)
NamedBearing(r) == HasText(r.name, kw_BRG) \/ HasText(r.name, kw_BEARING)
NamedPipe(r) == HasText(r.name, kw_PIPE) \/ HasText(r.name, kw_PIPING)

GateExcludes(r) == CodedSupply(r) /\ (~NamedRoll(r) \/ NamedBearing(r))
GatePassed(r) == CodedSupply(r) /\ NamedRoll(r) /\ ~NamedBearing(r)

CommonSteel(r) ==
  HasText(r.material, kw_SPCC) \/ HasText(r.material, kw_SPHC) \/ HasText(r.material, kw_SS)

SpecialAlloy(r) == HasText(r.material, kw_SCM) \/ HasText(r.material, kw_SF)

ThickSize(r) ==
  /\ ThicknessMatch(Upper(r.size)).matched
  /\ ThicknessMatch(Upper(r.size)).thickness >= 80

\* rules 3, 4, 6, 7, 9, 10, 11, 12 in their order
FirstMatch(m, r) ==
  IF m >= 3000 THEN "Ds"
  ELSE IF ~CommonSteel(r) /\ m >= 400 THEN "Ds"
  ELSE IF SpecialAlloy(r) /\ m >= 300 THEN "Ds"
  ELSE IF ~CommonSteel(r) /\ m >= 100 THEN "Dm"
  ELSE IF m >= 500 THEN "Dm"
  ELSE IF NamedPipe(r) THEN "PD"
  ELSE IF m < 50 THEN "PD"
  ELSE "unclassified"

\* a step of the classification loop, the PartGroup it classifies and the
\* category it records
ClassifyStep == pc = "classify" /\ gIdx <= Len(serial_groups)
StepKey == <<serial_groups[gIdx].serial, serial_groups[gIdx].parts_num>>
StepRep == RepRow(item_num, StepKey)
StepMass == GroupMass(item_num, StepKey)
StepResult == classification_debug'[Len(classification_debug')].category

LastDebug == classification_debug[Len(classification_debug)]

-----------------------------------------------------------------------------
\* C5: exclusion dominates: a PartGroup whose representative row's summary
\* contains MS-, MS or JIS (case-insensitive) is excluded whatever its mass
\* and other fields, and adds nothing to any category count or mass.
C5_ExclusionDominates ==
  [][ (ClassifyStep /\ MarkedSummary(StepRep)) =>
         /\ StepResult = "None"
         /\ category_stats' = category_stats
    ]_vars

\* a PartGroup of mass >= 3000 with a JIS summary was excluded and nothing
\* was counted
C5_Witness ==
  /\ pc = "classify"
  /\ classification_debug # <<>>
  /\ LastDebug.weight >= 3000
  /\ Contains(LastDebug.summary, kw_JIS)
  /\ LastDebug.category = "None"
  /\ category_stats = EmptyStats

\* C6: supply-code gate: a PartGroup not excluded by its summary whose supply
\* code contains ES, SU, ST or CS is excluded when its name has neither ROLL
\* nor ROLLER, and when it has ROLL/ROLLER together with BRG or BEARING,
\* whatever its mass.
C6_SupplyGate ==
  [][ (ClassifyStep /\ ~MarkedSummary(StepRep) /\ CodedSupply(StepRep)
         /\ (~NamedRoll(StepRep) \/ (NamedRoll(StepRep) /\ NamedBearing(StepRep)))) =>
         /\ StepResult = "None"
         /\ category_stats' = category_stats
    ]_vars

\* a ROLLER BRG group of mass 3000 with supply ES and a BOLT group of mass
\* 3000 with supply ES were both excluded
C6_Witness ==
  /\ pc = "classify"
  /\ Len(classification_debug) = 2
  /\ Len(input_data) = 2
  /\ \A k \in 1..2 :
       /\ classification_debug[k].category = "None"
       /\ ~classification_debug[k].has_ms
       /\ classification_debug[k].weight = 3000
       /\ CodedSupply(input_data[k])
  /\ NamedRoll(input_data[1]) /\ NamedBearing(input_data[1])
  /\ ~NamedRoll(input_data[2])

\* C7: a PartGroup that passes the supply-code gate gets the category that
\* the same group gets with an empty supply code.
C7_GateOnlyExcludes ==
  [][ (ClassifyStep /\ ~MarkedSummary(StepRep) /\ GatePassed(StepRep)) =>
         StepResult =
           classify_category(
             [ClassifyInput(StepRep, StepMass) EXCEPT !.supply = <<>>], input_data)
    ]_vars

\* supply ES, name Roller Assy, mass 150, common steel: unresolved, and the
\* item was stored with the group in De
C7_Witness ==
  /\ SummaryStored
  /\ Len(classification_debug) = 1
  /\ LastDebug.category = "unclassified"
  /\ LastDebug.weight = 150
  /\ \E j \in 1..Len(input_data) :
       /\ input_data[j].item = LastSummary.item_num
       /\ GatePassed(input_data[j])
       /\ CommonSteel(input_data[j])
  /\ LastSummary.de_count = 1
  /\ LastSummary.de_weight = 150

\* C8: a non-excluded PartGroup with no other row in its serial and no
\* thickness >= 80 in its size text gets the outcome of the first matching
\* rule of: mass >= 3000 -> Ds; not common steel and mass >= 400 -> Ds; SCM
\* or SF and mass >= 300 -> Ds; not common steel and mass >= 100 -> Dm;
\* mass >= 500 -> Dm; PIPE or PIPING -> PD; mass < 50 -> PD; else unresolved.
C8_FirstMatch ==
  [][ (ClassifyStep /\ ~MarkedSummary(StepRep) /\ ~GateExcludes(StepRep)
         /\ Cardinality({ j \in 1..Len(input_data) :
                            input_data[j].serial = StepKey[1] }) = 1
         /\ ~ThickSize(StepRep)) =>
         StepResult = FirstMatch(StepMass, StepRep)
    ]_vars

\* a lone SCM440 row of mass 300 was classified Ds
C8_Witness ==
  /\ pc = "classify"
  /\ Len(input_data) = 1
  /\ Len(classification_debug) = 1
  /\ SpecialAlloy(input_data[1])
  /\ ~MarkedSummary(input_data[1])
  /\ ~CodedSupply(input_data[1])
  /\ ~ThickSize(input_data[1])
  /\ LastDebug.weight = 300
  /\ LastDebug.category = "Ds"

\* C9: every PartGroup that rules 1 and 2 do not exclude and whose total_mass
\* is >= 3000 is classified Ds, for any material, size text and sibling rows.
C9_HeavyIsDs ==
  [][ (ClassifyStep /\ ~MarkedSummary(StepRep) /\ ~GateExcludes(StepRep)
         /\ StepMass >= 3000) =>
         StepResult = "Ds"
    ]_vars

\* a PartGroup of two rows, 2999 and 100, of common steel, was classified Ds
C9_Witness ==
  /\ pc = "classify"
  /\ Len(input_data) = 2
  /\ Len(classification_debug) = 1
  /\ RowMass(input_data[1]) = 2999
  /\ CommonSteel(input_data[1])
  /\ input_data[1].size = <<>>
  /\ LastDebug.weight = 3099
  /\ LastDebug.category = "Ds"

\* C10: sibling heavy-part rule: a non-excluded common-steel PartGroup with
\* mass < 3000 is classified Ds if some PartGroup of the same SerialGroup is
\* not common steel and has a group total_mass >= 300.
C10_SiblingHeavy ==
  [][ (ClassifyStep /\ ~MarkedSummary(StepRep) /\ ~GateExcludes(StepRep)
         /\ CommonSteel(StepRep) /\ StepMass < 3000
         /\ \E key \in GroupKeys(item_num) :
              /\ key[1] = StepKey[1]
              /\ ~CommonSteel(RepRow(item_num, key))
              /\ GroupMass(item_num, key) >= 300) =>
         StepResult = "Ds"
    ]_vars

-----------------------------------------------------------------------------
\* C11: item independence: the ItemSummary of an item depends only on the
\* rows of that item: it is the ItemSummary that the same rows give when the
\* table holds no row of another item.
C11_ItemIndependence ==
  SummaryStored =>
    LastSummary =
      ItemSummary(ItemRows(input_data, LastSummary.item_num), LastSummary.item_num)

\* C12: the mass thresholds are compared against the PartGroup's total_mass
\* for every PartGroup, those of total_mass 0 or negative included: the
\* category is the one the representative row gets when it carries the
\* group's total_mass.
C12_GroupMassUsed ==
  [][ ClassifyStep =>
        StepResult =
          classify_category(
            [StepRep EXCEPT !.usage = Num(1), !.uw = Num(StepMass)], input_data)
    ]_vars

\* the permutations of 1..n
Perms(n) ==
  { f \in [1..n -> 1..n] : \A i, j \in 1..n : f[i] = f[j] => i = j }

GroupsBuilt == pc \in {"classify", "emit"}

\* C13: the total_mass of every PartGroup is the sum of usage_quantity x
\* unit_weight over exactly the rows sharing its (item, serial, parts) key,
\* and the rows of the group taken in any other order give the same
\* total_mass.
C13_GroupMass ==
  GroupsBuilt =>
    \A k \in 1..Len(serial_groups) :
      LET g == serial_groups[k]
      IN /\ g.weight = GroupMass(item_num, <<g.serial, g.parts_num>>)
         /\ \A f \in Perms(Len(g.rows)) :
              PartsGroupWeight([i \in 1..Len(g.rows) |-> g.rows[f[i]]]).val = g.weight

\* a PartGroup of three rows of masses 80, 70 and -100 was built with
\* total_mass 50
C13_Witness ==
  /\ pc = "classify"
  /\ Len(input_data) = 3
  /\ Len(serial_groups) = 1
  /\ Len(serial_groups[1].rows) = 3
  /\ RowMass(input_data[1]) = 80
  /\ RowMass(input_data[2]) = 70
  /\ RowMass(input_data[3]) = 0 - 100
  /\ serial_groups[1].weight = 50

\* the rows of the item being processed that the builder has to skip
SkippedRowIdx ==
  { j \in 1..Len(input_data) :
      /\ input_data[j].item = item_num
      /\ (input_data[j].serial = NaN \/ input_data[j].parts = NaN) }

\* C14: the Part-Group Builder partitions the rows of an item: the groups
\* are one per (serial, parts) key of the rows that have both, each holding
\* exactly the rows of its key, so that a row with both present is in exactly
\* one PartGroup and a row with a missing serial_id or parts_id is in none;
\* only these groups are classified, and the counts and masses of the item
\* are those of these groups.
C14_Partition ==
  GroupsBuilt =>
    /\ \A k, l \in 1..Len(serial_groups) :
         (serial_groups[k].serial = serial_groups[l].serial
            /\ serial_groups[k].parts_num = serial_groups[l].parts_num) => k = l
    /\ { <<serial_groups[k].serial, serial_groups[k].parts_num>> :
           k \in 1..Len(serial_groups) } = GroupKeys(item_num)
    /\ \A k \in 1..Len(serial_groups) :
         serial_groups[k].rows =
           SelectSeq(input_data,
                     LAMBDA r : /\ r.item = item_num
                                /\ r.serial = serial_groups[k].serial
                                /\ r.parts = serial_groups[k].parts_num)
    /\ \A k \in 1..Len(classification_debug) :
         <<classification_debug[k].serial, classification_debug[k].parts>>
           \in GroupKeys(item_num)
    /\ pc = "emit" =>
         LET s == ItemData(item_num, item_rows[1], category_stats)
         IN /\ SumCounts(s) = Cardinality(NonExcludedKeys(item_num))
            /\ SumWeights(s) = SumGroupMass(item_num, NonExcludedKeys(item_num))

\* an item with a row of mass 80 without serial_id, a row without parts_id
\* and one PartGroup was classified and allocated
C14_Witness ==
  /\ pc = "emit"
  /\ \E j \in SkippedRowIdx : input_data[j].serial = NaN /\ RowMass(input_data[j]) = 80
  /\ \E j \in SkippedRowIdx : input_data[j].parts = NaN
  /\ Len(serial_groups) = 1
  /\ Len(classification_debug) = 1
  /\ SumCounts(ItemData(item_num, item_rows[1], category_stats)) = 1

\* the items with a grouped row whose usage or unit weight is missing or is
\* not a number
ItemsWithBadNumber ==
  { input_data[j].item :
      j \in { i \in 1..Len(input_data) :
                /\ input_data[i].item # NaN
                /\ input_data[i].serial # NaN
                /\ input_data[i].parts # NaN
                /\ \/ input_data[i].usage.kind \in {"nan", "str"}
                   \/ input_data[i].uw.kind \in {"nan", "str"} } }

\* C15: a non-numeric or missing usage_quantity or unit_weight never aborts
\* grouping or classification: the value is taken as 0 and the item of the
\* row still appears in the output.
C15_BadNumberIsZero ==
  pc = "done" =>
    \A item \in ItemsWithBadNumber :
      \E k \in 1..Len(grouped) : grouped[k].item_num = item

\* the classification of the PartGroup of the step fails: it reaches the scan
\* of the rows of its serial, and the scan meets a usage or unit weight that
\* float() rejects before it returns
StepFails ==
  /\ ~MarkedSummary(StepRep)
  /\ ~GateExcludes(StepRep)
  /\ CommonSteel(StepRep)
  /\ StepMass < 3000
  /\ RowMass(StepRep) < 3000
  /\ HeavySiblingScan(SameSerialParts(input_data, StepKey[1])) = "raise"

FailingItems ==
  { item_nums[i] : i \in { j \in 1..Len(item_nums) :
        ItemRaised(ItemRows(input_data, item_nums[j]), columns) } }

\* the input without the rows of the failing items
WithoutFailing ==
  SelectSeq(input_data, LAMBDA r : r.item \notin FailingItems)

\* C17: a failure while one item is processed removes only the record of that
\* item; the records of the other items are those of a run on the input
\* without the failing item.
C17_OtherItemsUnchanged ==
  (pc = "done" /\ FailingItems # {}) =>
    grouped = RunItems(WithoutFailing, columns, ItemNums(WithoutFailing))

\* C18: when a column the engine requires (item, serial, parts, usage) is
\* absent from the input the conversion fails and returns no result, and the
\* conversion fails for no other reason.
C18_StructuralFatal ==
  /\ columns # RequiredColumns => pc \notin {"done", "done2"}
  /\ pc = "aborted" => columns # RequiredColumns

\* C19: the output holds one ItemSummary for each distinct item_id of the
\* input, in the order of the first occurrences of the item_ids.
C19_OnePerItem ==
  pc = "done" =>
    [k \in 1..Len(grouped) |-> grouped[k].item_num] = item_nums

\* C20: no step of a run changes the input rows, and a second run on the same
\* rows returns the ItemSummary sequence of the first.
C20_Idempotent ==
  [][ /\ input_data' = input_data
      /\ (pc = "done" /\ pc' = "done2") => grouped' = grouped
    ]_vars

\* a second run has returned two ItemSummary records, after a group of two
\* rows was classified with usage 1 and its group mass written into the
\* representative row
C20_Witness ==
  /\ pc = "done2"
  /\ Len(grouped) = 2
  /\ \E key \in GroupKeys(grouped[1].item_num) :
       /\ Cardinality(GroupRowIdx(grouped[1].item_num, key)) = 2
       /\ GroupMass(grouped[1].item_num, key) > 0
       /\ GroupMass(grouped[1].item_num, key)
            # RowMass(RepRow(grouped[1].item_num, key))


-----------------------------------------------------------------------------
\* the rows of the input that belong to a PartGroup and are not its first row
NonFirstRowIdx ==
  { j \in 1..Len(input_data) :
      /\ input_data[j].item # NaN
      /\ input_data[j].serial # NaN
      /\ input_data[j].parts # NaN
      /\ \E i \in 1..(j - 1) :
           /\ input_data[i].item = input_data[j].item
           /\ input_data[i].serial = input_data[j].serial
           /\ input_data[i].parts = input_data[j].parts }

AltMaterials == {t_SS400, t_SUS304}

\* C21: only the first row of a PartGroup supplies text to classification:
\* the category of the PartGroup of a step is the one it gets when the
\* material text of a non-first row of any PartGroup is another one.
C21_RepRowOnly ==
  [][ ClassifyStep =>
        \A j \in NonFirstRowIdx : \A mat \in AltMaterials :
          classify_category(
            ClassifyInput(serial_groups[gIdx].representative_row,
                          serial_groups[gIdx].weight),
            [input_data EXCEPT ![j].material = mat]) = StepResult
    ]_vars

\* C22: in every ItemSummary the five category counts are non-negative
\* integers and the five category masses are non-negative.
C22_NonNegative ==
  \A k \in 1..Len(grouped) :
    /\ \A n \in {grouped[k].d_count, grouped[k].ds_count, grouped[k].dm_count,
                 grouped[k].de_count, grouped[k].pd_count} : n \in Nat
    /\ \A w \in {grouped[k].d_weight, grouped[k].ds_weight, grouped[k].dm_weight,
                 grouped[k].de_weight, grouped[k].pd_weight} : w >= 0

\* the category counts and masses of an ItemSummary, with its item_id
CountsAndMasses(s) ==
  <<s.item_num, s.d_count, s.d_weight, s.ds_count, s.ds_weight, s.dm_count,
    s.dm_weight, s.de_count, s.de_weight, s.pd_count, s.pd_weight>>

\* the input with its rows in the order f
Permuted(f) == [i \in 1..Len(input_data) |-> input_data[f[i]]]

\* C23: permuting the rows of the input changes no item's category counts
\* or category masses.
C23_OrderIndependent ==
  pc = "done" =>
    \A f \in Perms(Len(input_data)) :
      { CountsAndMasses(grouped[k]) : k \in 1..Len(grouped) } =
        LET out == RunItems(Permuted(f), columns, ItemNums(Permuted(f)))
        IN { CountsAndMasses(out[k]) : k \in 1..Len(out) }

\* the PartGroups of the serial of the step other than the one of the step
StepSiblings ==
  { key \in GroupKeys(item_num) : key[1] = StepKey[1] /\ key # StepKey }

\* the PartGroup of the step reaches rule 8: it is not excluded and none of
\* rules 3 to 7 matches
ReachesRule8 ==
  /\ ~MarkedSummary(StepRep)
  /\ ~GateExcludes(StepRep)
  /\ StepMass < 3000
  /\ ~(~CommonSteel(StepRep) /\ StepMass >= 400)
  /\ ~(CommonSteel(StepRep) /\ \E key \in StepSiblings :
          ~CommonSteel(RepRow(item_num, key)) /\ GroupMass(item_num, key) >= 300)
  /\ ~(SpecialAlloy(StepRep) /\ StepMass >= 300)
  /\ ~(~CommonSteel(StepRep) /\ StepMass >= 100)

\* rules 9 to 12
AfterRule8(m, r) ==
  IF m >= 500 THEN "Dm"
  ELSE IF NamedPipe(r) THEN "PD"
  ELSE IF m < 50 THEN "PD"
  ELSE "unclassified"

\* C24: a PartGroup that reaches rule 8 is Ds when the thickness of its size
\* text is >= 80 and a sibling PartGroup of its serial has mass >= 300; when
\* its size text holds no number it gets the outcome of rules 9 to 12; and it
\* never becomes d.  A group whose classification fails before rule 8, in
\* the scan of rule 5, is left aside.
C24_ThicknessRule ==
  [][ (ClassifyStep /\ ReachesRule8 /\ ~StepFails) =>
        /\ (ThickSize(StepRep) /\ \E key \in StepSiblings :
                                    GroupMass(item_num, key) >= 300)
             => StepResult = "Ds"
        /\ ~ThicknessMatch(Upper(StepRep.size)).matched
             => StepResult = AfterRule8(StepMass, StepRep)
        /\ StepResult # "d"
    ]_vars

\* no usage and no unit weight of the input is a text that float() rejects:
\* no exception occurs in classify_category
AllNumeric ==
  \A j \in 1..Len(input_data) :
    input_data[j].usage.kind # "str" /\ input_data[j].uw.kind # "str"

\* C25: category d arises only from a failure: when no exception occurs in
\* the classifier no PartGroup is classified d, and the d count and d mass of
\* every ItemSummary are 0.
C25_DOnlyFromFailure ==
  AllNumeric =>
    /\ \A k \in 1..Len(classification_debug) : classification_debug[k].category # "d"
    /\ category_stats["d"].count = 0 /\ category_stats["d"].weight = 0
    /\ \A k \in 1..Len(grouped) : grouped[k].d_count = 0 /\ grouped[k].d_weight = 0

\* an item of three PartGroups, every usage and unit weight a number, was
\* stored with its three groups counted and none of them in d
C25_Witness ==
  /\ SummaryStored
  /\ \A j \in 1..Len(input_data) :
       input_data[j].usage.kind = "num" /\ input_data[j].uw.kind = "num"
  /\ Len(classification_debug) = 3
  /\ SumCounts(LastSummary) = 3
  /\ LastSummary.d_count = 0
  /\ LastSummary.d_weight = 0

\* C26: every PartGroup that the classifier leaves unresolved has a group
\* total_mass m with 50 <= m < 500, m < 100 when it is not of common steel,
\* and no PIPE or PIPING in its parts name; so every mass that the allocation
\* adds to Dm or De lies in [50, 500).
C26_UnresolvedRange ==
  [][ /\ (ClassifyStep /\ StepResult = "unclassified") =>
          /\ 50 <= StepMass /\ StepMass < 500
          /\ ~CommonSteel(StepRep) => StepMass < 100
          /\ ~NamedPipe(StepRep)
      /\ AllocateStep =>
          \A k \in UnresolvedIdx :
            /\ 50 <= classification_debug[k].weight
            /\ classification_debug[k].weight < 500
    ]_vars


-----------------------------------------------------------------------------
(* converter_v5_fixed: categories from the SERIAL number, one count per row *)

\* a SERIAL cell of the v5 frame: a text or a missing value
SerialText(s) == [kind |-> "text", val |-> s]
SerialNaN == [kind |-> "nan", val |-> <<>>]

V5_PD == {10, 20, 30, 50, 60, 70, 80, 90}
V5_De == {11}
V5_Dm == {12, 14, 15, 16, 18}
V5_Ds == {23, 33, 34, 55, 56, 61, 75, 86, 87, 91}

\* ExcelConverter.classify_category of converter_v5_fixed;
\* re.match(r'^(\d{2})', str(serial)) needs two digits at the start
classify_category_v5(serial) ==
  IF serial.kind = "nan" THEN "d"
  ELSE IF ~(Len(serial.val) >= 2 /\ IsDigit(serial.val[1]) /\ IsDigit(serial.val[2]))
  THEN "d"
  ELSE LET prefix == DigitsToInt(SubSeq(serial.val, 1, 2))
       IN IF prefix \in V5_PD THEN "PD"
          ELSE IF prefix = 11 THEN "De"
          ELSE IF prefix \in V5_Dm THEN "Dm"
          ELSE IF prefix \in V5_Ds THEN "Ds"
          ELSE "d"

V5EmptyStats == [c \in FinalCategories |-> [count |-> 0, weight |-> 0]]

\* Largest number of rows of a v5 input table.
MaxRowsV5 == 2

V5Serials ==
  { SerialNaN,
    SerialText(<<"1", "0", "A", "0", "1">>),
    SerialText(<<"1", "1", "B", "0", "1">>),
    SerialText(<<"1", "2", "C">>),
    SerialText(<<"2", "3">>),
    SerialText(<<"9", "9", "Z">>),
    SerialText(<<"A", "1", "0">>),
    SerialText(<<"5">>) }

\* rows of item 1 for every SERIAL, with a usage or a unit weight that is no
\* number, and one row of item 2
V5Rows ==
  { Row("1", serial, "p1", t_BOLT, <<>>, cells[1], t_SS400, <<>>, <<>>, cells[2]) :
      serial \in V5Serials,
      cells \in {<<Num(2), Num(80)>>, <<StrCell, Num(80)>>, <<Num(2), StrCell>>} }
    \cup { Row("2", SerialText(<<"1", "0", "A", "0", "1">>), "p1", t_BOLT, <<>>,
                Num(2), t_SS400, <<>>, <<>>, Num(80)) }

V5Tables == UNION { [1..n -> V5Rows] : n \in 1..MaxRowsV5 }

V5Init ==
  /\ input_data \in V5Tables
  /\ columns = RequiredColumns
  /\ pc = "v5loop"
  /\ itemIdx = 1
  /\ serial_groups = <<>>
  /\ gIdx = 1
  /\ category_stats = V5EmptyStats
  /\ classification_debug = <<>>
  /\ grouped = <<>>

\* an iteration of the ITEM loop starts
V5StartItem ==
  /\ pc = "v5loop"
  /\ itemIdx <= Len(item_nums)
  /\ category_stats' = V5EmptyStats
  /\ gIdx' = 1
  /\ pc' = "v5rows"
  /\ UNCHANGED <<input_data, columns, itemIdx, serial_groups,
                 classification_debug, grouped>>

\* one row of the item is classified and counted
V5CountRow ==
  /\ pc = "v5rows"
  /\ gIdx <= Len(item_rows)
  /\ LET row == item_rows[gIdx]
         category == classify_category_v5(row.serial)
         usage == CellFloat(row.usage)
         unit_weight == CellFloatSafe(row.uw)
         total_weight == usage.val * unit_weight
     IN /\ ~usage.raised
        /\ category_stats' =
             [category_stats EXCEPT ![category] =
                [count |-> @.count + 1, weight |-> @.weight + total_weight]]
  /\ gIdx' = gIdx + 1
  /\ UNCHANGED <<input_data, columns, pc, itemIdx, serial_groups,
                 classification_debug, grouped>>

\* float() of the usage raises: the except of the row loop, continue
V5SkipRow ==
  /\ pc = "v5rows"
  /\ gIdx <= Len(item_rows)
  /\ CellFloat(item_rows[gIdx].usage).raised
  /\ gIdx' = gIdx + 1
  /\ UNCHANGED <<input_data, columns, pc, itemIdx, serial_groups, category_stats,
                 classification_debug, grouped>>

\* item_data is stored in grouped and the ITEM loop goes on
V5Emit ==
  /\ pc = "v5rows"
  /\ gIdx > Len(item_rows)
  /\ grouped' = Append(grouped, ItemData(item_num, item_rows[1], category_stats))
  /\ itemIdx' = itemIdx + 1
  /\ pc' = "v5loop"
  /\ UNCHANGED <<input_data, columns, serial_groups, gIdx, category_stats,
                 classification_debug>>

\* return grouped
V5Return ==
  /\ pc = "v5loop"
  /\ itemIdx > Len(item_nums)
  /\ pc' = "v5done"
  /\ UNCHANGED <<input_data, columns, itemIdx, serial_groups, gIdx,
                 category_stats, classification_debug, grouped>>

V5Next == V5StartItem \/ V5CountRow \/ V5SkipRow \/ V5Emit \/ V5Return

SpecV5 == V5Init /\ [][V5Next]_vars

\* C27: in converter_v5_fixed the sets of prefixes are pairwise disjoint,
\* classify_category returns one of PD, De, Dm, Ds, d for every SERIAL, and
\* when the rows of an item have been walked every row is counted in one
\* category: the five counts sum to the number of rows of the item.
C27_EveryRowCounted ==
  /\ V5_PD \cap V5_De = {} /\ V5_PD \cap V5_Dm = {} /\ V5_PD \cap V5_Ds = {}
  /\ V5_De \cap V5_Dm = {} /\ V5_De \cap V5_Ds = {} /\ V5_Dm \cap V5_Ds = {}
  /\ \A j \in 1..Len(input_data) :
       classify_category_v5(input_data[j].serial) \in FinalCategories
  /\ (pc = "v5rows" /\ gIdx > Len(item_rows)) =>
       category_stats["d"].count + category_stats["Ds"].count
         + category_stats["Dm"].count + category_stats["De"].count
         + category_stats["PD"].count = Len(item_rows)

====
